---- MODULE Spec2Model ----
(***************************************************************************)
(* The dictionary core of english-learning-api: the Entry Store (TypeORM   *)
(* entities), DictionaryService.importWordData, DictionaryService          *)
(* .lookupWord with its generative fallback, DictionaryService             *)
(* .getWordAudio and AudioService.                                         *)
(*                                                                         *)
(* Strings are sequences of one-character strings, so that toLowerCase,    *)
(* trim and the regular expression of the JSON extraction are computed.    *)
(* URLs and completion texts are sequences of tokens.  A null or undefined *)
(* value is Null.                                                          *)
(***************************************************************************)
EXTENDS Integers, Sequences, FiniteSets, TLC

VARIABLES
  words,           \* rows of table words
  pronunciations,  \* rows of table pronunciations
  definitions,     \* rows of table definitions
  examples,        \* rows of table examples
  wordForms,       \* rows of table word_forms
  synonyms,        \* rows of table synonyms
  llmCalls,        \* POSTs made to the completion endpoint so far
  apiCalls,        \* for each Pronunciation row, by id, the calls of
                   \* getAudioUrl that lookups have made for it so far
  imp,             \* for each importer, the importWordData call it runs
  lk,              \* for each looker, the lookupWord call it runs
  last,            \* the last request handled and its outcome
  nImports,        \* importWordData calls handled so far
  nLookups         \* lookupWord calls handled so far

store == <<words, pronunciations, definitions, examples, wordForms, synonyms>>
vars == <<words, pronunciations, definitions, examples, wordForms, synonyms,
          llmCalls, apiCalls, imp, lk, last, nImports, nLookups>>

----------------------------------------------------------------------------
(* Bounds of the model *)

MaxImports == 3
MaxLookups == 2
MaxDefRows == 4
MaxTextLen == 4
MaxProse == 2
MaxPhonetics == 2

----------------------------------------------------------------------------
(* Values *)

Null == <<"NULL">>

\* JavaScript truthiness of a string-or-null value: null, undefined and ""
\* are falsy.
Truthy(v) == v # Null /\ v # <<>>

\* a || b
OrElse(a, b) == IF Truthy(a) THEN a ELSE b

Min(S) == CHOOSE x \in S : \A y \in S : x <= y
Max(S) == CHOOSE x \in S : \A y \in S : x >= y

\* All the orders in which the rows of a set can be read back.
RECURSIVE Perms(_)
Perms(S) ==
  IF S = {} THEN {<<>>}
  ELSE UNION {{<<x>> \o p : p \in Perms(S \ {x})} : x \in S}

----------------------------------------------------------------------------
(* String.prototype.toLowerCase and String.prototype.trim *)

LowerChar(c) ==
  CASE c = "H" -> "h"
    [] c = "I" -> "i"
    [] OTHER -> c

ToLowerCase(s) == [i \in 1..Len(s) |-> LowerChar(s[i])]

RECURSIVE TrimStart(_)
TrimStart(s) == IF s # <<>> /\ Head(s) = " " THEN TrimStart(Tail(s)) ELSE s

RECURSIVE TrimEnd(_)
TrimEnd(s) ==
  IF s # <<>> /\ s[Len(s)] = " " THEN TrimEnd(SubSeq(s, 1, Len(s) - 1)) ELSE s

Trim(s) == TrimEnd(TrimStart(s))

----------------------------------------------------------------------------
(* Results of a call: a returned value or a thrown exception *)

Return(v) == [kind |-> "return", value |-> v]
Throw(e) == [kind |-> "throw", error |-> e]

\* new HttpException(message, HttpStatus.INTERNAL_SERVER_ERROR)
HttpException(msg) == [http |-> TRUE, message |-> msg]
\* any other Error
PlainError(msg) == [http |-> FALSE, message |-> msg]

----------------------------------------------------------------------------
(* The Entry Store: the TypeORM entities *)

\* @PrimaryGeneratedColumn('increment'): rows are never deleted and every
\* insert of the model succeeds, so the next key of a table is its size + 1.
NextId(rows) == Cardinality(rows) + 1

\* frequency_rank is a nullable integer column; ranks start at 1 and
\* NullRank stands for NULL.
NullRank == 0

Word(id, word, wordNormalized, language, frequencyRank, partOfSpeech) ==
  [id |-> id, word |-> word, wordNormalized |-> wordNormalized,
   language |-> language, frequencyRank |-> frequencyRank,
   partOfSpeech |-> partOfSpeech]

Pronunciation(id, wordId, accent, ipa, audioUrl) ==
  [id |-> id, wordId |-> wordId, accent |-> accent, ipa |-> ipa,
   audioUrl |-> audioUrl]

Definition(id, wordId, partOfSpeech, definitionEn, definitionVi, level, definitionOrder) ==
  [id |-> id, wordId |-> wordId, partOfSpeech |-> partOfSpeech,
   definitionEn |-> definitionEn, definitionVi |-> definitionVi,
   level |-> level, definitionOrder |-> definitionOrder]

Example(id, definitionId, exampleEn, exampleVi) ==
  [id |-> id, definitionId |-> definitionId, exampleEn |-> exampleEn,
   exampleVi |-> exampleVi]

WordForm(id, wordId, formType, formWord) ==
  [id |-> id, wordId |-> wordId, formType |-> formType, formWord |-> formWord]

Synonym(id, wordId, synonymWord) ==
  [id |-> id, wordId |-> wordId, synonymWord |-> synonymWord]

----------------------------------------------------------------------------
(* DictionaryService.importWordData *)

\* ImportPronunciations without the check for an existing row
RECURSIVE ImportPronunciationsUnguarded(_, _, _)
ImportPronunciationsUnguarded(rows, wordId, prons) ==
  IF prons = <<>> THEN rows
  ELSE ImportPronunciationsUnguarded(
         rows \cup {Pronunciation(NextId(rows), wordId, Head(prons).accent,
                                  Head(prons).ipa, Head(prons).audio_url)},
         wordId, Tail(prons))

\* ImportPronunciations that saves the payload's ipa and audio URL into the
\* row it finds
RECURSIVE ImportPronunciationsUpserting(_, _, _)
ImportPronunciationsUpserting(rows, wordId, prons) ==
  IF prons = <<>> THEN rows
  ELSE LET pron == Head(prons)
           existing == {r \in rows : r.wordId = wordId /\ r.accent = pron.accent}
           saved ==
             IF existing = {}
             THEN rows \cup {Pronunciation(NextId(rows), wordId, pron.accent,
                                           pron.ipa, pron.audio_url)}
             ELSE {IF r \in existing
                   THEN [r EXCEPT !.ipa = pron.ipa, !.audioUrl = pron.audio_url]
                   ELSE r : r \in rows}
       IN ImportPronunciationsUpserting(saved, wordId, Tail(prons))

\* The loop over data.pronunciations: a row is saved only when no row with
\* the same (wordId, accent) is found.
RECURSIVE ImportPronunciations(_, _, _)
ImportPronunciations(rows, wordId, prons) ==
  IF prons = <<>> THEN rows
  ELSE LET pron == Head(prons)
           existing == {r \in rows : r.wordId = wordId /\ r.accent = pron.accent}
           saved ==
             IF existing = {}
             THEN rows \cup {Pronunciation(NextId(rows), wordId, pron.accent,
                                           pron.ipa, pron.audio_url)}
             ELSE rows
       IN ImportPronunciations(saved, wordId, Tail(prons))

\* The loop over def.examples: every example is saved.
RECURSIVE ImportExamples(_, _, _)
ImportExamples(rows, definitionId, exs) ==
  IF exs = <<>> THEN rows
  ELSE ImportExamples(
         rows \cup {Example(NextId(rows), definitionId, Head(exs).en, Head(exs).vi)},
         definitionId, Tail(exs))

\* ImportDefinitions numbering the definitions after the rows the word has
RECURSIVE ImportDefinitionsContinued(_, _, _, _, _)
ImportDefinitionsContinued(defRows, exRows, wordId, defs, i) ==
  IF i >= Len(defs) THEN [definitions |-> defRows, examples |-> exRows]
  ELSE LET def == defs[i + 1]
           defEntity == Definition(NextId(defRows), wordId, def.pos,
                                   def.definition_en, def.definition_vi,
                                   OrElse(def.level, <<"intermediate">>),
                                   Cardinality({d \in defRows : d.wordId = wordId}) + 1)
       IN ImportDefinitionsContinued(defRows \cup {defEntity},
                                     ImportExamples(exRows, defEntity.id, def.examples),
                                     wordId, defs, i + 1)

\* The loop `for (let i = 0; i < definitions.length; i++)`: every definition
\* is saved with definitionOrder i + 1, then its examples.
RECURSIVE ImportDefinitions(_, _, _, _, _)
ImportDefinitions(defRows, exRows, wordId, defs, i) ==
  IF i >= Len(defs) THEN [definitions |-> defRows, examples |-> exRows]
  ELSE LET def == defs[i + 1]
           defEntity == Definition(NextId(defRows), wordId, def.pos,
                                   def.definition_en, def.definition_vi,
                                   OrElse(def.level, <<"intermediate">>), i + 1)
       IN ImportDefinitions(defRows \cup {defEntity},
                            ImportExamples(exRows, defEntity.id, def.examples),
                            wordId, defs, i + 1)

\* The loop over Object.entries(word_forms): a row is saved only when no row
\* with the same (wordId, formType) is found.
RECURSIVE ImportWordForms(_, _, _)
ImportWordForms(rows, wordId, forms) ==
  IF forms = <<>> THEN rows
  ELSE LET form == Head(forms)
           existing == {r \in rows : r.wordId = wordId /\ r.formType = form.formType}
           saved ==
             IF existing = {}
             THEN rows \cup {WordForm(NextId(rows), wordId, form.formType, form.formWord)}
             ELSE rows
       IN ImportWordForms(saved, wordId, Tail(forms))

\* The loop over data.synonyms: a row is saved only when no row with the
\* same (wordId, synonymWord) is found.
RECURSIVE ImportSynonyms(_, _, _)
ImportSynonyms(rows, wordId, syns) ==
  IF syns = <<>> THEN rows
  ELSE LET syn == Head(syns)
           existing == {r \in rows : r.wordId = wordId /\ r.synonymWord = syn}
           saved ==
             IF existing = {}
             THEN rows \cup {Synonym(NextId(rows), wordId, syn)}
             ELSE rows
       IN ImportSynonyms(saved, wordId, Tail(syns))

\* wordRepository.create({...}) of a word that was not found
NewWordEntity(data) ==
  Word(NextId(words), data.word,
       OrElse(data.word_normalized, ToLowerCase(data.word)),
       OrElse(data.language, <<"en">>),
       data.frequency_rank,
       [i \in 1..Len(data.definitions) |-> data.definitions[i].pos])

\* WordEntityOf that brings the row found up to date with the payload
WordEntityOfOverwriting(data) ==
  IF \E e \in words : e.word = data.word
  THEN {[NewWordEntity(data) EXCEPT !.id = e.id] : e \in {x \in words : x.word = data.word}}
  ELSE {NewWordEntity(data)}

\* `let wordEntity = findOne(...); if (!wordEntity) { create, save }`: the
\* row found, as it is, or else the entity created
WordEntityOf(data) ==
  IF \E e \in words : e.word = data.word
  THEN {e \in words : e.word = data.word}
  ELSE {NewWordEntity(data)}

\* The whole handler.  wordRepository.findOne({ where: { word } }) returns
\* a row with that literal word when there is one; the entity found or
\* created is the parent of every row saved afterwards.
ImportWordData(data) ==
  /\ nImports < MaxImports
  /\ Cardinality(definitions) + Len(data.definitions) <= MaxDefRows
  /\ \E wordEntity \in WordEntityOf(data) :
       LET defs == ImportDefinitions(definitions, examples, wordEntity.id,
                                     data.definitions, 0)
       IN /\ words' = words \cup {wordEntity}
          /\ pronunciations' =
               ImportPronunciations(pronunciations, wordEntity.id, data.pronunciations)
          /\ definitions' = defs.definitions
          /\ examples' = defs.examples
          /\ wordForms' = ImportWordForms(wordForms, wordEntity.id, data.word_forms)
          /\ synonyms' = ImportSynonyms(synonyms, wordEntity.id, data.synonyms)
          /\ last' = [op |-> "import", payload |-> data, entryId |-> wordEntity.id,
                      result |-> Return([success |-> TRUE, word |-> data.word])]
  /\ nImports' = nImports + 1
  /\ UNCHANGED <<llmCalls, apiCalls, imp, nLookups, lk>>

----------------------------------------------------------------------------
(* AudioService *)

\* The audio URLs of the model
UrlUs == <<"https://media/", "hi", "-us.mp3">>
UrlUk == <<"https://media/", "/uk/", "hi", ".mp3">>
UrlPlain == <<"https://media/", "hi", ".mp3">>


\* String.prototype.includes on a URL, a sequence of tokens
Includes(url, token) == \E i \in 1..Len(url) : url[i] = token

\* ClassifyPhonetics whose default tests the US bucket only
RECURSIVE ClassifyPhoneticsDefaultIntoEmptyUs(_, _)
ClassifyPhoneticsDefaultIntoEmptyUs(result, phonetics) ==
  IF phonetics = <<>> THEN result
  ELSE LET audioUrl == Head(phonetics).audio
           next ==
             IF ~Truthy(audioUrl) THEN result
             ELSE IF Includes(audioUrl, "-us.mp3") \/ Includes(audioUrl, "/us/")
               THEN [result EXCEPT !.us = audioUrl]
             ELSE IF Includes(audioUrl, "-uk.mp3") \/ Includes(audioUrl, "/uk/")
               THEN [result EXCEPT !.uk = audioUrl]
             ELSE IF ~Truthy(result.us)
               THEN [result EXCEPT !.us = audioUrl]
             ELSE result
       IN ClassifyPhoneticsDefaultIntoEmptyUs(next, Tail(phonetics))

\* The body of the loop over the phonetics of one entry: result is
\* { us?, uk? }, an absent key being Null.
RECURSIVE ClassifyPhonetics(_, _)
ClassifyPhonetics(result, phonetics) ==
  IF phonetics = <<>> THEN result
  ELSE LET audioUrl == Head(phonetics).audio
           next ==
             IF ~Truthy(audioUrl) THEN result
             ELSE IF Includes(audioUrl, "-us.mp3") \/ Includes(audioUrl, "/us/")
               THEN [result EXCEPT !.us = audioUrl]
             ELSE IF Includes(audioUrl, "-uk.mp3") \/ Includes(audioUrl, "/uk/")
               THEN [result EXCEPT !.uk = audioUrl]
             ELSE IF ~Truthy(result.us) /\ ~Truthy(result.uk)
               THEN [result EXCEPT !.us = audioUrl]
             ELSE result
       IN ClassifyPhonetics(next, Tail(phonetics))

\* The loop over the entries of the answer
RECURSIVE ClassifyEntries(_, _)
ClassifyEntries(result, data) ==
  IF data = <<>> THEN result
  ELSE ClassifyEntries(ClassifyPhonetics(result, Head(data).phonetics), Tail(data))

\* FetchAudioFromFreeDictionary whose catch block answers with a recording
\* of its own instead of nothing
FetchAudioFromFreeDictionaryDefaulting(response) ==
  IF response.status # "ok" THEN [us |-> UrlPlain, uk |-> Null]
  ELSE IF response.data = <<>> THEN [us |-> Null, uk |-> Null]
  ELSE ClassifyEntries([us |-> Null, uk |-> Null], response.data)

\* fetchAudioFromFreeDictionary, given what the GET answers: a failed
\* request, an empty answer and an answer without audio all give {}.
FetchAudioFromFreeDictionary(response) ==
  IF response.status # "ok" THEN [us |-> Null, uk |-> Null]
  ELSE IF response.data = <<>> THEN [us |-> Null, uk |-> Null]
  ELSE ClassifyEntries([us |-> Null, uk |-> Null], response.data)

\* GetAudioUrl without the fallback to the other accent
GetAudioUrlOwnAccent(audioUrls, accent) ==
  IF accent = "US" THEN OrElse(audioUrls.us, Null) ELSE OrElse(audioUrls.uk, Null)

\* getAudioUrl, given the buckets fetchAudioFromFreeDictionary returned
GetAudioUrl(audioUrls, accent) ==
  IF accent = "US"
  THEN OrElse(OrElse(audioUrls.us, audioUrls.uk), Null)
  ELSE OrElse(OrElse(audioUrls.uk, audioUrls.us), Null)

----------------------------------------------------------------------------
(* What the phonetic-data endpoint can answer *)

Audios == {Null, UrlUs, UrlUk, UrlPlain}

SeqsUpTo(S, n) == UNION {[1..k -> S] : k \in 0..n}

PhoneticLists(n) == SeqsUpTo({[audio |-> a] : a \in Audios}, n)

ApiResponses ==
  {[status |-> "error", data |-> <<>>], [status |-> "ok", data |-> <<>>]}
  \cup {[status |-> "ok", data |-> <<[phonetics |-> ps]>>] : ps \in PhoneticLists(MaxPhonetics)}
  \cup {[status |-> "ok", data |-> <<[phonetics |-> p1], [phonetics |-> p2]>>] :
          p1 \in PhoneticLists(1), p2 \in PhoneticLists(1)}

\* The buckets a call of fetchAudioFromFreeDictionary can return
AudioBuckets == {FetchAudioFromFreeDictionary(r) : r \in ApiResponses}

\* The answers the calls made by the lookups get
LookupApiResponses ==
  {[status |-> "error", data |-> <<>>], [status |-> "ok", data |-> <<>>]}
  \cup {[status |-> "ok", data |-> <<[phonetics |-> ps]>>] :
          ps \in {<<[audio |-> UrlUs]>>, <<[audio |-> UrlUk]>>,
                  <<[audio |-> UrlUs], [audio |-> UrlUk]>>}}

----------------------------------------------------------------------------
(* The requests of the model *)

wHi == <<"H", "i">>
whi == <<"h", "i">>

ExampleA == [en |-> "Hi there", vi |-> "Chao ban"]
DefA == [pos |-> "interjection", definition_en |-> "a greeting",
         definition_vi |-> "loi chao", level |-> Null, examples |-> <<ExampleA>>]
DefB == [pos |-> "noun", definition_en |-> "an utterance of hi",
         definition_vi |-> "tieng chao", level |-> <<"beginner">>, examples |-> <<>>]

PronUS == [accent |-> "US", ipa |-> "/hai/", audio_url |-> Null]
PronUK == [accent |-> "UK", ipa |-> "/hAi/", audio_url |-> Null]
PronUSAudio == [accent |-> "US", ipa |-> "/haI/", audio_url |-> UrlUs]
PronUKAudio == [accent |-> "UK", ipa |-> "/hai:/", audio_url |-> UrlPlain]

Payload(word, word_normalized, frequency_rank, prons, defs, syns, forms) ==
  [word |-> word, word_normalized |-> word_normalized, language |-> Null,
   frequency_rank |-> frequency_rank, pronunciations |-> prons,
   definitions |-> defs, synonyms |-> syns, word_forms |-> forms]

\* An absent list of the payload is the empty list: the handler skips both.
Payloads ==
  { Payload(whi, whi, 7, <<PronUS, PronUK>>, <<DefA>>, <<"hey">>,
            <<[formType |-> "plural", formWord |-> "his"]>>),
    Payload(wHi, Null, NullRank, <<PronUSAudio, PronUS>>, <<DefB, DefA>>,
            <<"hey", "yo", "hey">>, <<>>),
    Payload(whi, Null, NullRank, <<PronUKAudio>>, <<>>, <<"yo">>,
            <<[formType |-> "plural", formWord |-> "hies"],
              [formType |-> "past", formWord |-> "hied"]>>) }

LookupWords == {wHi, whi, <<" ", "I">>}

----------------------------------------------------------------------------
(* DictionaryService.getWordAudio *)

\* A value that may be undefined: <<>> or <<v>>
Undefined == <<>>
Some(v) == <<v>>

\* The handler's possible outcomes, given the buckets the resolver returns
\* if it is called: the row of findOne and the pronunciation that
\* Array.prototype.find meets first are whatever the database returns.
GetWordAudioOutcomes(word, accent, audioUrls) ==
  LET matches == {e \in words : e.word = word \/ e.wordNormalized = ToLowerCase(word)}
      FromApi(entryId) ==
        [entryId |-> entryId, called |-> TRUE, audioUrls |-> audioUrls,
         audio_url |-> GetAudioUrl(audioUrls, accent)]
      OfEntity(e) ==
        LET ps == {p \in pronunciations : p.wordId = e.id /\ p.accent = accent}
        IN IF ps = {} THEN {FromApi(e.id)}
           ELSE {IF Truthy(p.audioUrl)
                 THEN [entryId |-> e.id, called |-> FALSE,
                       audioUrls |-> [us |-> Null, uk |-> Null],
                       audio_url |-> p.audioUrl]
                 ELSE FromApi(e.id) : p \in ps}
  IN IF matches = {} THEN {FromApi(0)} ELSE UNION {OfEntity(e) : e \in matches}

\* GetWordAudio that writes the URL the resolver returned to the rows of the
\* entry for the accent
GetWordAudioPersisting(word, accent) ==
  \E audioUrls \in AudioBuckets :
    \E out \in GetWordAudioOutcomes(word, accent, audioUrls) :
      /\ last' = [op |-> "audio", word |-> word, accent |-> accent,
                  entryId |-> out.entryId,
                  called |-> out.called, audioUrls |-> out.audioUrls,
                  result |-> Return([audio_url |-> out.audio_url])]
      /\ pronunciations' =
           {IF out.called /\ Truthy(out.audio_url)
               /\ p.wordId = out.entryId /\ p.accent = accent
            THEN [p EXCEPT !.audioUrl = out.audio_url] ELSE p : p \in pronunciations}
      /\ UNCHANGED <<words, definitions, examples, wordForms, synonyms,
                     llmCalls, apiCalls, imp, nImports, nLookups, lk>>

\* The handler when no awaited call rejects: entryId is the id of the row
\* findOne returned, 0 when it returned none.
GetWordAudio(word, accent) ==
  \E audioUrls \in AudioBuckets :
    \E out \in GetWordAudioOutcomes(word, accent, audioUrls) :
      /\ last' = [op |-> "audio", word |-> word, accent |-> accent,
                  entryId |-> out.entryId,
                  called |-> out.called, audioUrls |-> out.audioUrls,
                  result |-> Return([audio_url |-> out.audio_url])]
      /\ UNCHANGED <<store, llmCalls, apiCalls, imp, nImports, nLookups, lk>>

----------------------------------------------------------------------------
(* The generative fallback: DictionaryService.generateWordWithLLM *)

\* RegexMatch with a lazy quantifier, /\{[\s\S]*?\}/: the match ends at the
\* first "}" after its start
RegexMatchLazy(text) ==
  LET starts == {i \in 1..Len(text) :
                   text[i] = "{" /\ \E j \in (i + 1)..Len(text) : text[j] = "}"}
  IN IF starts = {} THEN Null
     ELSE SubSeq(text, Min(starts),
                 Min({j \in (Min(starts) + 1)..Len(text) : text[j] = "}"}))

\* generatedText.match(/\{[\s\S]*\}/): the match starts at the first "{"
\* that has a "}" after it and, [\s\S]* being greedy, ends at the last "}"
\* of the text; null when there is no such "{".
RegexMatch(text) ==
  LET starts == {i \in 1..Len(text) :
                   text[i] = "{" /\ \E j \in (i + 1)..Len(text) : text[j] = "}"}
  IN IF starts = {} THEN Null
     ELSE SubSeq(text, Min(starts), Max({j \in 1..Len(text) : text[j] = "}"}))

\* JSON.parse on the JSON texts of the model: an object is "{", members
\* separated by ",", "}"; a member is a key token ("a" stands for `"a":`)
\* followed by an object; " " is white space.  The value parsed is the set
\* of <<key, value>> pairs of the object, a repeated key keeping its last
\* value.
JsonKeys == {"a", "b"}

RECURSIVE SkipWs(_, _)
SkipWs(s, i) == IF i <= Len(s) /\ s[i] = " " THEN SkipWs(s, i + 1) ELSE i

ParseFail == [ok |-> FALSE, val |-> {}, next |-> 0]

RECURSIVE ParseObject(_, _)
RECURSIVE ParseMembers(_, _, _)
ParseObject(s, i) ==
  IF i > Len(s) \/ s[i] # "{" THEN ParseFail
  ELSE LET j == SkipWs(s, i + 1)
       IN IF j <= Len(s) /\ s[j] = "}" THEN [ok |-> TRUE, val |-> {}, next |-> j + 1]
          ELSE ParseMembers(s, j, {})

ParseMembers(s, i, acc) ==
  IF i > Len(s) \/ s[i] \notin JsonKeys THEN ParseFail
  ELSE LET v == ParseObject(s, SkipWs(s, i + 1))
       IN IF ~v.ok THEN ParseFail
          ELSE LET acc2 == {m \in acc : m[1] # s[i]} \cup {<<s[i], v.val>>}
                   j == SkipWs(s, v.next)
               IN IF j > Len(s) THEN ParseFail
                  ELSE IF s[j] = "}" THEN [ok |-> TRUE, val |-> acc2, next |-> j + 1]
                  ELSE IF s[j] = "," THEN ParseMembers(s, SkipWs(s, j + 1), acc2)
                  ELSE ParseFail

SyntaxError == PlainError(<<"Unexpected token in JSON">>)

\* JSONParse that stops after the first object of the text
JSONParseFirstObject(s) ==
  LET r == ParseObject(s, SkipWs(s, 1))
  IN IF r.ok THEN Return(r.val) ELSE Throw(SyntaxError)

JSONParse(s) ==
  LET r == ParseObject(s, SkipWs(s, 1))
  IN IF r.ok /\ SkipWs(s, r.next) = Len(s) + 1 THEN Return(r.val) ELSE Throw(SyntaxError)

\* The try block: the POST, choices[0].text.trim(), the match, the parse.
GenerateTry(response) ==
  IF response.status # "ok"
  THEN Throw(PlainError(<<"timeout of 30000ms exceeded">>))
  ELSE IF response.choices = <<>>
  THEN Throw(PlainError(<<"Cannot read properties of undefined (reading 'text')">>))
  ELSE LET generatedText == Trim(response.choices[1].text)
           jsonMatch == RegexMatch(generatedText)
       IN IF jsonMatch = Null
          THEN Throw(HttpException(<<"Failed to parse dictionary data">>))
          ELSE JSONParse(jsonMatch)

\* GenerateCatch without the instanceof test: every exception is wrapped
GenerateCatchWrapAll(result) ==
  IF result.kind = "throw"
  THEN Throw(HttpException(<<"Failed to generate word data: ">> \o result.error.message))
  ELSE result

\* The catch block: an HttpException is rethrown, anything else is wrapped.
GenerateCatch(result) ==
  IF result.kind = "throw" /\ ~result.error.http
  THEN Throw(HttpException(<<"Failed to generate word data: ">> \o result.error.message))
  ELSE result

GenerateWordWithLLM(response) == GenerateCatch(GenerateTry(response))

----------------------------------------------------------------------------
(* DictionaryService.findWordInDatabase *)

\* The rows findOne({ where: [{ word }, { wordNormalized: word }] }) can
\* return
FindMatches(word) == {e \in words : e.word = word \/ e.wordNormalized = word}

\* Array.prototype.sort((a, b) => a.definitionOrder - b.definitionOrder):
\* a stable sort, here by insertion.
RECURSIVE InsertSorted(_, _)
InsertSorted(sorted, d) ==
  IF sorted = <<>> THEN <<d>>
  ELSE IF sorted[Len(sorted)].definitionOrder - d.definitionOrder <= 0
    THEN Append(sorted, d)
  ELSE Append(InsertSorted(SubSeq(sorted, 1, Len(sorted) - 1), d), sorted[Len(sorted)])

RECURSIVE SortDefinitions(_)
SortDefinitions(defs) ==
  IF defs = <<>> THEN <<>>
  ELSE InsertSorted(SortDefinitions(SubSeq(defs, 1, Len(defs) - 1)), defs[Len(defs)])

\* ResponseDefinitions without the sort
ResponseDefinitionsAsRead(defs) == defs

\* The definitions of the response, from the rows in the order read
ResponseDefinitions(defs) == SortDefinitions(defs)

DefinitionDto(def) ==
  [pos |-> def.partOfSpeech, definition_en |-> def.definitionEn,
   definition_vi |-> def.definitionVi, level |-> def.level,
   examples |-> {[en |-> ex.exampleEn, vi |-> ex.exampleVi] :
                   ex \in {x \in examples : x.definitionId = def.id}}]

\* The loop building wordFormsObj from the rows in the order read: the
\* object as its set of <<formType, formWord>> pairs.
RECURSIVE WordFormsObj(_)
WordFormsObj(forms) ==
  IF forms = <<>> THEN {}
  ELSE LET form == forms[Len(forms)]
       IN {kv \in WordFormsObj(SubSeq(forms, 1, Len(forms) - 1)) : kv[1] # form.formType}
          \cup {<<form.formType, form.formWord>>}

\* The callback of wordEntity.pronunciations.map for a row p, given what
\* getAudioUrl returned for it: the audio URL it ends with, written to the
\* row when the row had none and one was found.
EnrichedAudioUrl(p, audioUrl) ==
  IF ~Truthy(p.audioUrl) /\ Truthy(audioUrl) THEN audioUrl ELSE p.audioUrl

\* BackfilledRows with save() of a copy of the row without its id instead of
\* update(p.id, ...): the URL found goes to a new row
BackfilledRowsInserting(ps, resolved) ==
  LET found == {p \in ps : EnrichedAudioUrl(p, resolved[p]) # p.audioUrl}
      Rank(p) == Cardinality({q \in found : q.id <= p.id})
  IN pronunciations \cup
       {[p EXCEPT !.id = Cardinality(pronunciations) + Rank(p),
                  !.audioUrl = resolved[p]] : p \in found}

\* BackfilledRows without the update: the URL found is only put in the response
BackfilledRowsNotSaved(ps, resolved) == pronunciations

\* pronunciationRepository.update(p.id, { audioUrl }) for every row of the
\* entity that lacked audio and for which a URL was found
BackfilledRows(ps, resolved) ==
  {IF p \in ps THEN [p EXCEPT !.audioUrl = EnrichedAudioUrl(p, resolved[p])] ELSE p :
     p \in pronunciations}

\* How the GET of fetchAudioFromFreeDictionary ended: it failed (network
\* error, timeout, error status), it answered nothing, or it answered entries.
ApiOutcome(response) ==
  IF response.status # "ok" THEN "error"
  ELSE IF response.data = <<>> THEN "empty"
  ELSE "answer"

\* Lacking that takes every row, with or without audio
LackingAll(ps) == ps

\* `if (!p.audioUrl)`: the rows for which getAudioUrl is called
Lacking(ps) == {p \in ps : ~Truthy(p.audioUrl)}

\* The possible outcomes of the calls of getAudioUrl for the rows of the
\* entity wordEntity: a choice of what the phonetic-data endpoint answers
\* to each call.  The rows that have audio make no call: resolved is Null
\* and api is "none" for them.
Enrichments(wordEntity) ==
  LET ps == {p \in pronunciations : p.wordId = wordEntity.id}
      lacking == Lacking(ps)
      RowOf(id) == CHOOSE p \in ps : p.id = id
      Resolved(answers) ==
        [p \in ps |-> IF p \in lacking
                      THEN GetAudioUrl(FetchAudioFromFreeDictionary(answers[p]), p.accent)
                      ELSE Null]
  IN {[resolved |-> [id \in {p.id : p \in ps} |-> Resolved(answers)[RowOf(id)]],
       api |-> [id \in {p.id : p \in ps} |->
                  IF RowOf(id) \in lacking THEN ApiOutcome(answers[RowOf(id)])
                  ELSE "none"],
       rows |-> BackfilledRows(ps, Resolved(answers))] :
      answers \in [lacking -> LookupApiResponses]}

\* The object findWordInDatabase returns for the row wordEntity, given the
\* audio URL each of its pronunciations ends with and the order in which
\* the relations were read back
AssembledResponse(wordEntity, audioOf, pOrder, dOrder, fOrder) ==
  LET syns == {y.synonymWord : y \in {x \in synonyms : x.wordId = wordEntity.id}}
  IN [word |-> wordEntity.word,
      pronunciations |->
        [i \in 1..Len(pOrder) |->
           [accent |-> pOrder[i].accent, ipa |-> pOrder[i].ipa,
            audio_url |-> audioOf[pOrder[i].id]]],
      definitions |-> [i \in 1..Len(dOrder) |->
                        DefinitionDto(ResponseDefinitions(dOrder)[i])],
      word_forms |-> IF WordFormsObj(fOrder) # {}
                     THEN Some(WordFormsObj(fOrder)) ELSE Undefined,
      synonyms |-> IF syns # {} THEN Some(syns) ELSE Undefined,
      frequency_rank |-> wordEntity.frequencyRank]

\* The possible outcomes of findWordInDatabase for the row wordEntity that
\* findOne returned: those of the calls of getAudioUrl and a choice of the
\* order in which the relations are read back.
HitOutcomes(wordEntity) ==
  LET ps == {p \in pronunciations : p.wordId = wordEntity.id}
      ds == {d \in definitions : d.wordId = wordEntity.id}
      fs == {f \in wordForms : f.wordId = wordEntity.id}
  IN {[resolved |-> en.resolved,
       api |-> en.api,
       rows |-> en.rows,
       orders |-> [i \in 1..Len(dOrder) |-> ResponseDefinitions(dOrder)[i].definitionOrder],
       response |->
         AssembledResponse(
           wordEntity,
           [id \in {p.id : p \in ps} |->
              EnrichedAudioUrl(CHOOSE p \in ps : p.id = id, en.resolved[id])],
           pOrder, dOrder, fOrder)] :
      en \in Enrichments(wordEntity), pOrder \in Perms(ps),
      dOrder \in Perms(ds), fOrder \in Perms(fs)}

----------------------------------------------------------------------------
(* DictionaryService.lookupWord *)

\* The log of the calls of getAudioUrl after a call for each row of called
Called(calls, called) ==
  [id \in DOMAIN calls \cup called |->
     (IF id \in DOMAIN calls THEN calls[id] ELSE 0) + (IF id \in called THEN 1 ELSE 0)]

\* LookupCatch without the instanceof test: every exception is wrapped
LookupCatchWrapAll(result) ==
  IF result.kind = "throw"
  THEN Throw(HttpException(<<"Failed to lookup word: ">> \o result.error.message))
  ELSE result

\* The catch block: an HttpException is rethrown, anything else is wrapped.
LookupCatch(result) ==
  IF result.kind = "throw" /\ ~result.error.http
  THEN Throw(HttpException(<<"Failed to lookup word: ">> \o result.error.message))
  ELSE result

NoCompletion == [status |-> "none", choices |-> <<>>]

\* The answer of the completion endpoint that holds text
Completion(text) == [status |-> "ok", choices |-> <<[text |-> text]>>]

\* LookupHit that also asks the completion endpoint
LookupHitGenerating(word, normalizedWord) ==
  \E wordEntity \in FindMatches(normalizedWord) :
    \E out \in HitOutcomes(wordEntity) :
      /\ pronunciations' = out.rows
      /\ apiCalls' = Called(apiCalls, {id \in DOMAIN out.api : out.api[id] # "none"})
      /\ llmCalls' = llmCalls + 1
      /\ last' = [op |-> "lookup", word |-> word, hit |-> TRUE,
                  entryId |-> wordEntity.id, resolved |-> out.resolved,
                  api |-> out.api,
                  orders |-> out.orders, completion |-> NoCompletion,
                  result |-> LookupCatch(Return(out.response))]
      /\ UNCHANGED <<words, definitions, examples, wordForms, synonyms, imp, lk>>

\* A lookup that finds a row: the audio of its pronunciations is resolved
\* and written back, and the assembled entry is returned.
LookupHit(word, normalizedWord) ==
  \E wordEntity \in FindMatches(normalizedWord) :
    \E out \in HitOutcomes(wordEntity) :
      /\ pronunciations' = out.rows
      /\ apiCalls' = Called(apiCalls, {id \in DOMAIN out.api : out.api[id] # "none"})
      /\ last' = [op |-> "lookup", word |-> word, hit |-> TRUE,
                  entryId |-> wordEntity.id, resolved |-> out.resolved,
                  api |-> out.api,
                  orders |-> out.orders, completion |-> NoCompletion,
                  result |-> LookupCatch(Return(out.response))]
      /\ UNCHANGED <<words, definitions, examples, wordForms, synonyms, llmCalls, imp, lk>>

\* LookupMiss that saves a row for the word it generated an entry for
LookupMissSaving(word, normalizedWord, response) ==
  /\ FindMatches(normalizedWord) = {}
  /\ llmCalls' = llmCalls + 1
  /\ last' = [op |-> "lookup", word |-> word, hit |-> FALSE, entryId |-> 0,
              resolved |-> <<>>, api |-> <<>>, orders |-> <<>>, completion |-> response,
              result |-> LookupCatch(GenerateWordWithLLM(response))]
  /\ words' = IF GenerateWordWithLLM(response).kind = "return"
              THEN words \cup {Word(NextId(words), normalizedWord, normalizedWord,
                                    <<"en">>, NullRank, <<>>)}
              ELSE words
  /\ UNCHANGED <<pronunciations, definitions, examples, wordForms, synonyms, apiCalls, imp, lk>>

\* A lookup that finds no row: the entry is generated and returned.
LookupMiss(word, normalizedWord, response) ==
  /\ FindMatches(normalizedWord) = {}
  /\ llmCalls' = llmCalls + 1
  /\ last' = [op |-> "lookup", word |-> word, hit |-> FALSE, entryId |-> 0,
              resolved |-> <<>>, api |-> <<>>, orders |-> <<>>, completion |-> response,
              result |-> LookupCatch(GenerateWordWithLLM(response))]
  /\ UNCHANGED <<store, apiCalls, imp, lk>>

\* The whole handler, the completion endpoint answering with one of
\* responses when it is called.
LookupWord(word, responses) ==
  LET normalizedWord == Trim(ToLowerCase(word))
  IN /\ \/ LookupHit(word, normalizedWord)
        \/ \E response \in responses : LookupMiss(word, normalizedWord, response)
     /\ nLookups' = nLookups + 1
     /\ UNCHANGED nImports

----------------------------------------------------------------------------
(* DictionaryService.lookupWord when a call of a repository rejects *)

\* What a repository call rejects with: errors of the driver, none of them
\* an HttpException
StorageErrors ==
  {PlainError(<<"Connection terminated unexpectedly">>),
   PlainError(<<"canceling statement due to statement timeout">>)}

\* LookupFindFails taking the rejection of findOne for "no row found"
LookupFindFailsAsMiss(word, normalizedWord, error) ==
  /\ llmCalls' = llmCalls + 1
  /\ last' = [op |-> "lookup", word |-> word, hit |-> FALSE, entryId |-> 0,
              resolved |-> <<>>, api |-> <<>>, orders |-> <<>>,
              completion |-> NoCompletion,
              failure |-> [at |-> "findOne", error |-> error],
              result |-> LookupCatch(GenerateWordWithLLM(
                           Completion(<<"{", "}">>)))]
  /\ UNCHANGED <<store, apiCalls, imp, lk>>

\* wordRepository.findOne rejects: findWordInDatabase rejects with the
\* error before anything is read or written, and the catch block of
\* lookupWord handles it.
LookupFindFails(word, normalizedWord, error) ==
  /\ last' = [op |-> "lookup", word |-> word, hit |-> FALSE, entryId |-> 0,
              resolved |-> <<>>, api |-> <<>>, orders |-> <<>>,
              completion |-> NoCompletion,
              failure |-> [at |-> "findOne", error |-> error],
              result |-> LookupCatch(Throw(error))]
  /\ UNCHANGED <<store, llmCalls, apiCalls, imp, lk>>

\* A row is found and a later repository call rejects: the update of one of
\* the rows a URL was found for (the callbacks of the other rows run to
\* their end) or, the updates made, synonymRepository.find.
LookupHitFails(word, normalizedWord, error) ==
  \E wordEntity \in FindMatches(normalizedWord) :
    \E out \in Enrichments(wordEntity) :
      \E failed \in {0} \cup {id \in DOMAIN out.resolved : Truthy(out.resolved[id])} :
        /\ pronunciations' =
             {IF q.id = failed THEN CHOOSE p \in pronunciations : p.id = failed ELSE q :
                q \in out.rows}
        /\ apiCalls' = Called(apiCalls, {id \in DOMAIN out.api : out.api[id] # "none"})
        /\ last' = [op |-> "lookup", word |-> word, hit |-> TRUE,
                    entryId |-> wordEntity.id, resolved |-> out.resolved,
                    api |-> out.api, orders |-> <<>>, completion |-> NoCompletion,
                    failure |-> [at |-> IF failed = 0 THEN "synonyms" ELSE "update",
                                 row |-> failed, error |-> error],
                    result |-> LookupCatch(Throw(error))]
        /\ UNCHANGED <<words, definitions, examples, wordForms, synonyms, llmCalls, imp, lk>>

\* getWordAudio when wordRepository.findOne rejects with error: the catch
\* block answers with a null URL.  getAudioUrl never rejects.
GetWordAudioFails(word, accent, error) ==
  /\ last' = [op |-> "audio", word |-> word, accent |-> accent,
              entryId |-> 0, called |-> FALSE,
              audioUrls |-> [us |-> Null, uk |-> Null],
              failure |-> [at |-> "findOne", row |-> 0, error |-> error],
              result |-> Return([audio_url |-> Null])]
  /\ UNCHANGED <<store, llmCalls, apiCalls, imp, nImports, nLookups, lk>>

\* The whole handler when a repository call rejects with error
LookupWordFailing(word, error) ==
  LET normalizedWord == Trim(ToLowerCase(word))
  IN /\ \/ LookupFindFails(word, normalizedWord, error)
        \/ LookupHitFails(word, normalizedWord, error)
     /\ nLookups' = nLookups + 1
     /\ UNCHANGED nImports

----------------------------------------------------------------------------
(* What the completion endpoint can answer *)

TextTokens == {"{", "}", "a", "b", ",", " ", "p"}

\* The JSON objects whose values are taken from vals
ObjectsOver(vals) ==
  UNION {{{<<k, f[k]>> : k \in K} : f \in [K -> vals]} : K \in SUBSET JsonKeys}

JsonObjects == ObjectsOver(ObjectsOver({{}}))

\* JSON.stringify of such an object, keys in the order "a", "b"
RECURSIVE Stringify(_)
Stringify(o) ==
  LET Member(k) == IF \E m \in o : m[1] = k
                   THEN <<k>> \o Stringify((CHOOSE m \in o : m[1] = k)[2])
                   ELSE <<>>
      a == Member("a")
      b == Member("b")
  IN <<"{">> \o a \o (IF a # <<>> /\ b # <<>> THEN <<",">> ELSE <<>>) \o b \o <<"}">>

\* Commentary around the JSON: text without braces
Prose == SeqsUpTo({"p", " "}, MaxProse)

Texts ==
  SeqsUpTo(TextTokens, MaxTextLen)
  \cup {p1 \o Stringify(o) \o p2 : o \in JsonObjects, p1 \in Prose, p2 \in Prose}
  \cup {Stringify(o1) \o p \o Stringify(o2) :
          o1 \in ObjectsOver({{}}), o2 \in ObjectsOver({{}}), p \in Prose}

FailedCompletions ==
  {[status |-> "error", choices |-> <<>>], [status |-> "ok", choices |-> <<>>]}

\* Every answer of the model
GenCompletions == FailedCompletions \cup {Completion(t) : t \in Texts}

\* The answers the lookups of Spec get
Completions ==
  FailedCompletions
  \cup {Completion(<<"p", " ", "p">>),
        Completion(<<"p", "{", "a", "{", "}", "}", " ", "p">>),
        Completion(<<"{", "}", "p", "{", "}">>)}

----------------------------------------------------------------------------
(* Concurrent calls of importWordData, one step for each awaited storage call *)

Importers == {"i1", "i2"}

Lookers == {"l1", "l2"}

\* An importer that runs no call
Idle == [pc |-> "idle"]

\* The payloads of the concurrent calls: those for the word "hi"
ConcurrentPayloads == {data \in Payloads : data.word = whi}

\* The rejection of an insert by the unique constraint on words.word
UniqueViolation ==
  PlainError(<<"duplicate key value violates unique constraint">>)

\* The catch block: every exception is wrapped.
ImportCatch(error) ==
  Throw(HttpException(<<"Failed to import word: ">> \o error.message))

\* Where the call goes on when the loop over data.synonyms is at its i-th
\* element; past the last one the call returns.
SynonymsLoop(data, i) ==
  IF i <= Len(data.synonyms) THEN [pc |-> "findSyn", i |-> i]
  ELSE [pc |-> "done", i |-> 0]

\* The same for the loop over the entries of data.word_forms,
WordFormsLoop(data, i) ==
  IF i <= Len(data.word_forms) THEN [pc |-> "findForm", i |-> i]
  ELSE SynonymsLoop(data, 1)

\* the loop over data.definitions
DefinitionsLoop(data, i) ==
  IF i <= Len(data.definitions) THEN [pc |-> "saveDef", i |-> i]
  ELSE WordFormsLoop(data, 1)

\* and the loop over data.pronunciations.
PronunciationsLoop(data, i) ==
  IF i <= Len(data.pronunciations) THEN [pc |-> "findPron", i |-> i]
  ELSE DefinitionsLoop(data, 1)

\* The call c moved to the position pos: at "done" it has returned.
Moved(c, pos) ==
  [c EXCEPT !.pc = pos.pc, !.i = pos.i,
            !.result = IF pos.pc = "done"
                       THEN Return([success |-> TRUE, word |-> c.data.word])
                       ELSE @]

\* The call c after it has saved the row id of table
Saved(c, table, id) == [c EXCEPT !.saved = @ \cup {<<table, id>>}]

\* The call c ended by the exception error
Thrown(c, error) == [c EXCEPT !.pc = "done", !.result = ImportCatch(error)]

\* importWordData(data) is called.
ImpCall(p, data) ==
  /\ imp[p].pc = "idle"
  /\ imp' = [imp EXCEPT ![p] =
               [pc |-> "findWord", data |-> data, wordId |-> 0, missed |-> FALSE,
                i |-> 0, j |-> 0, defId |-> 0, saved |-> {}, result |-> Null]]
  /\ UNCHANGED <<store, llmCalls, apiCalls, last, nImports, nLookups, lk>>

\* await wordRepository.findOne({ where: { word } })
ImpFindWord(p) ==
  LET c == imp[p]
      found == {e \in words : e.word = c.data.word}
  IN /\ c.pc = "findWord"
     /\ IF found = {}
        THEN imp' = [imp EXCEPT ![p] = [c EXCEPT !.pc = "saveWord", !.missed = TRUE]]
        ELSE \E e \in found :
               imp' = [imp EXCEPT ![p] =
                        Moved([c EXCEPT !.wordId = e.id], PronunciationsLoop(c.data, 1))]
     /\ UNCHANGED <<store, llmCalls, apiCalls, last, nImports, nLookups, lk>>

\* ImpSaveWord on a table without the unique constraint on word
ImpSaveWordUnconstrained(p) ==
  LET c == imp[p]
      e == NewWordEntity(c.data)
  IN /\ c.pc = "saveWord"
     /\ words' = words \cup {e}
     /\ imp' = [imp EXCEPT ![p] =
                  Moved(Saved([c EXCEPT !.wordId = e.id], "words", e.id),
                        PronunciationsLoop(c.data, 1))]
     /\ UNCHANGED <<pronunciations, definitions, examples, wordForms, synonyms,
                    llmCalls, apiCalls, last, nImports, nLookups, lk>>

\* ImpSaveWord that goes on with the entity it could not insert
ImpSaveWordSwallowing(p) ==
  LET c == imp[p]
      e == NewWordEntity(c.data)
  IN /\ c.pc = "saveWord"
     /\ words' = IF \E x \in words : x.word = c.data.word THEN words ELSE words \cup {e}
     /\ imp' = [imp EXCEPT ![p] =
                  Moved(Saved([c EXCEPT !.wordId = e.id], "words", e.id),
                        PronunciationsLoop(c.data, 1))]
     /\ UNCHANGED <<pronunciations, definitions, examples, wordForms, synonyms,
                    llmCalls, apiCalls, last, nImports, nLookups, lk>>

\* await wordRepository.save(wordEntity): the insert is rejected when a row
\* holds the same word (`@Column({ unique: true })`, `word ... UNIQUE`).
ImpSaveWord(p) ==
  LET c == imp[p]
      e == NewWordEntity(c.data)
  IN /\ c.pc = "saveWord"
     /\ IF \E x \in words : x.word = c.data.word
        THEN /\ imp' = [imp EXCEPT ![p] = Thrown(c, UniqueViolation)]
             /\ UNCHANGED words
        ELSE /\ words' = words \cup {e}
             /\ imp' = [imp EXCEPT ![p] =
                          Moved(Saved([c EXCEPT !.wordId = e.id], "words", e.id),
                                PronunciationsLoop(c.data, 1))]
     /\ UNCHANGED <<pronunciations, definitions, examples, wordForms, synonyms,
                    llmCalls, apiCalls, last, nImports, nLookups, lk>>

\* await pronunciationRepository.findOne({ where: { wordId, accent } })
ImpFindPron(p) ==
  LET c == imp[p]
      pron == c.data.pronunciations[c.i]
      existing == {r \in pronunciations : r.wordId = c.wordId /\ r.accent = pron.accent}
  IN /\ c.pc = "findPron"
     /\ imp' = [imp EXCEPT ![p] =
                  IF existing = {} THEN [c EXCEPT !.pc = "savePron"]
                  ELSE Moved(c, PronunciationsLoop(c.data, c.i + 1))]
     /\ UNCHANGED <<store, llmCalls, apiCalls, last, nImports, nLookups, lk>>

\* await pronunciationRepository.save({...})
ImpSavePron(p) ==
  LET c == imp[p]
      pron == c.data.pronunciations[c.i]
      row == Pronunciation(NextId(pronunciations), c.wordId, pron.accent, pron.ipa,
                           pron.audio_url)
  IN /\ c.pc = "savePron"
     /\ pronunciations' = pronunciations \cup {row}
     /\ imp' = [imp EXCEPT ![p] =
                  Moved(Saved(c, "pronunciations", row.id),
                        PronunciationsLoop(c.data, c.i + 1))]
     /\ UNCHANGED <<words, definitions, examples, wordForms, synonyms,
                    llmCalls, apiCalls, last, nImports, nLookups, lk>>

\* await definitionRepository.save(defEntity)
ImpSaveDef(p) ==
  LET c == imp[p]
      def == c.data.definitions[c.i]
      row == Definition(NextId(definitions), c.wordId, def.pos, def.definition_en,
                        def.definition_vi, OrElse(def.level, <<"intermediate">>), c.i)
      c2 == Saved([c EXCEPT !.defId = row.id], "definitions", row.id)
  IN /\ c.pc = "saveDef"
     /\ definitions' = definitions \cup {row}
     /\ imp' = [imp EXCEPT ![p] =
                  IF Len(def.examples) > 0 THEN [c2 EXCEPT !.pc = "saveEx", !.j = 1]
                  ELSE Moved(c2, DefinitionsLoop(c.data, c.i + 1))]
     /\ UNCHANGED <<words, pronunciations, examples, wordForms, synonyms,
                    llmCalls, apiCalls, last, nImports, nLookups, lk>>

\* await exampleRepository.save({...})
ImpSaveExample(p) ==
  LET c == imp[p]
      exs == c.data.definitions[c.i].examples
      row == Example(NextId(examples), c.defId, exs[c.j].en, exs[c.j].vi)
      c2 == Saved(c, "examples", row.id)
  IN /\ c.pc = "saveEx"
     /\ examples' = examples \cup {row}
     /\ imp' = [imp EXCEPT ![p] =
                  IF c.j < Len(exs) THEN [c2 EXCEPT !.j = c.j + 1]
                  ELSE Moved(c2, DefinitionsLoop(c.data, c.i + 1))]
     /\ UNCHANGED <<words, pronunciations, definitions, wordForms, synonyms,
                    llmCalls, apiCalls, last, nImports, nLookups, lk>>

\* await wordFormRepository.findOne({ where: { wordId, formType } })
ImpFindForm(p) ==
  LET c == imp[p]
      form == c.data.word_forms[c.i]
      existing == {r \in wordForms : r.wordId = c.wordId /\ r.formType = form.formType}
  IN /\ c.pc = "findForm"
     /\ imp' = [imp EXCEPT ![p] =
                  IF existing = {} THEN [c EXCEPT !.pc = "saveForm"]
                  ELSE Moved(c, WordFormsLoop(c.data, c.i + 1))]
     /\ UNCHANGED <<store, llmCalls, apiCalls, last, nImports, nLookups, lk>>

\* await wordFormRepository.save({...})
ImpSaveForm(p) ==
  LET c == imp[p]
      form == c.data.word_forms[c.i]
      row == WordForm(NextId(wordForms), c.wordId, form.formType, form.formWord)
  IN /\ c.pc = "saveForm"
     /\ wordForms' = wordForms \cup {row}
     /\ imp' = [imp EXCEPT ![p] =
                  Moved(Saved(c, "wordForms", row.id), WordFormsLoop(c.data, c.i + 1))]
     /\ UNCHANGED <<words, pronunciations, definitions, examples, synonyms,
                    llmCalls, apiCalls, last, nImports, nLookups, lk>>

\* await synonymRepository.findOne({ where: { wordId, synonymWord } })
ImpFindSyn(p) ==
  LET c == imp[p]
      syn == c.data.synonyms[c.i]
      existing == {r \in synonyms : r.wordId = c.wordId /\ r.synonymWord = syn}
  IN /\ c.pc = "findSyn"
     /\ imp' = [imp EXCEPT ![p] =
                  IF existing = {} THEN [c EXCEPT !.pc = "saveSyn"]
                  ELSE Moved(c, SynonymsLoop(c.data, c.i + 1))]
     /\ UNCHANGED <<store, llmCalls, apiCalls, last, nImports, nLookups, lk>>

\* await synonymRepository.save({...})
ImpSaveSyn(p) ==
  LET c == imp[p]
      row == Synonym(NextId(synonyms), c.wordId, c.data.synonyms[c.i])
  IN /\ c.pc = "saveSyn"
     /\ synonyms' = synonyms \cup {row}
     /\ imp' = [imp EXCEPT ![p] =
                  Moved(Saved(c, "synonyms", row.id), SynonymsLoop(c.data, c.i + 1))]
     /\ UNCHANGED <<words, pronunciations, definitions, examples, wordForms,
                    llmCalls, apiCalls, last, nImports, nLookups, lk>>

\* The rows of the table named table
TableRows(table) ==
  CASE table = "words" -> words
    [] table = "pronunciations" -> pronunciations
    [] table = "definitions" -> definitions
    [] table = "examples" -> examples
    [] table = "wordForms" -> wordForms
    [] table = "synonyms" -> synonyms

\* The rows of table without those the call c saved
WithoutSaved(table, c) ==
  {r \in TableRows(table) : <<table, r.id>> \notin c.saved}

\* ImpReject inside a transaction, which the rejection rolls back
ImpRejectRollingBack(p, error) ==
  LET c == imp[p]
  IN /\ c.pc \notin {"idle", "done"}
     /\ imp' = [imp EXCEPT ![p] = Thrown(c, error)]
     /\ words' = WithoutSaved("words", c)
     /\ pronunciations' = WithoutSaved("pronunciations", c)
     /\ definitions' = WithoutSaved("definitions", c)
     /\ examples' = WithoutSaved("examples", c)
     /\ wordForms' = WithoutSaved("wordForms", c)
     /\ synonyms' = WithoutSaved("synonyms", c)
     /\ UNCHANGED <<llmCalls, apiCalls, last, nImports, nLookups, lk>>

\* The repository call the import awaits rejects with error: the catch
\* block throws, and the rows saved so far stay.
ImpReject(p, error) ==
  LET c == imp[p]
  IN /\ c.pc \notin {"idle", "done"}
     /\ imp' = [imp EXCEPT ![p] = Thrown(c, error)]
     /\ UNCHANGED <<store, llmCalls, apiCalls, last, nImports, nLookups, lk>>

----------------------------------------------------------------------------
(* Concurrent calls of lookupWord, one step for each awaited call *)

\* PostAnswers without the timeout of the POST: an endpoint that stays
\* silent never settles the call
PostAnswersUnbounded(silent) == IF silent THEN {} ELSE Completions

\* How the POST to the completion endpoint can settle: `timeout: 30000`
\* rejects it when the endpoint stays silent.
PostAnswers(silent) ==
  IF silent THEN {[status |-> "error", choices |-> <<>>]} ELSE Completions

\* How the GET to the phonetic-data endpoint can settle: `timeout: 5000`
\* rejects it when the endpoint stays silent.
GetAnswers(silent) ==
  IF silent THEN {[status |-> "error", data |-> <<>>]} ELSE LookupApiResponses

\* The callback of wordEntity.pronunciations.map for one row: it awaits
\* getAudioUrl ("call"), then update ("update"), and is then fulfilled
\* ("settled") or rejected; url is p.audioUrl of the entity in memory.
Task(pc, url, thrown) == [pc |-> pc, url |-> url, thrown |-> thrown]

\* The result of a call that has not ended
Pending == [kind |-> "pending"]

\* lookupWord(word) is called; silent tells whether the external endpoints
\* stay silent during the call.
LkCall(l, word, silent) ==
  /\ lk[l].pc = "idle"
  /\ lk' = [lk EXCEPT ![l] =
              [pc |-> "find", word |-> word,
               normalizedWord |-> Trim(ToLowerCase(word)), silent |-> silent,
               entryId |-> 0, tasks |-> <<>>, result |-> Pending]]
  /\ UNCHANGED <<store, llmCalls, apiCalls, imp, last, nImports, nLookups>>

\* await wordRepository.findOne(...): without a row the call goes on to
\* generateWordWithLLM, with a row the callbacks of Promise.all start.
LkFind(l) ==
  LET c == lk[l]
  IN /\ c.pc = "find"
     /\ IF FindMatches(c.normalizedWord) = {}
        THEN lk' = [lk EXCEPT ![l] = [c EXCEPT !.pc = "generate"]]
        ELSE \E wordEntity \in FindMatches(c.normalizedWord) :
               LET ps == {p \in pronunciations : p.wordId = wordEntity.id}
               IN lk' = [lk EXCEPT ![l] =
                          [c EXCEPT !.pc = "enrich", !.entryId = wordEntity.id,
                                    !.tasks =
                                      [id \in {p.id : p \in ps} |->
                                         LET p == CHOOSE q \in ps : q.id = id
                                         IN IF p \in Lacking(ps)
                                            THEN Task("call", p.audioUrl, {})
                                            ELSE Task("settled", p.audioUrl, {})]]]
     /\ UNCHANGED <<store, llmCalls, apiCalls, imp, last, nImports, nLookups>>

\* await this.audioService.getAudioUrl(word, p.accent) settles: with a URL
\* the callback goes on to the update, without one it is fulfilled.
LkGetAudioUrl(l, id) ==
  LET c == lk[l]
  IN /\ c.pc \in {"enrich", "returned"}
     /\ id \in DOMAIN c.tasks
     /\ c.tasks[id].pc = "call"
     /\ \E response \in GetAnswers(c.silent) :
          LET p == CHOOSE q \in pronunciations : q.id = id
              audioUrl == GetAudioUrl(FetchAudioFromFreeDictionary(response), p.accent)
          IN lk' = [lk EXCEPT ![l].tasks[id] =
                      IF Truthy(audioUrl) THEN Task("update", audioUrl, {})
                      ELSE Task("settled", c.tasks[id].url, {})]
     /\ apiCalls' = Called(apiCalls, {id})
     /\ UNCHANGED <<store, llmCalls, imp, last, nImports, nLookups>>

\* await this.pronunciationRepository.update(p.id, { audioUrl }) settles
LkUpdate(l, id) ==
  LET c == lk[l]
  IN /\ c.pc \in {"enrich", "returned"}
     /\ id \in DOMAIN c.tasks
     /\ c.tasks[id].pc = "update"
     /\ pronunciations' =
          {IF p.id = id THEN [p EXCEPT !.audioUrl = c.tasks[id].url] ELSE p :
             p \in pronunciations}
     /\ lk' = [lk EXCEPT ![l].tasks[id] = Task("settled", c.tasks[id].url, {})]
     /\ UNCHANGED <<words, definitions, examples, wordForms, synonyms,
                    llmCalls, apiCalls, imp, last, nImports, nLookups>>

\* LkUpdateRejects with a try/catch in the callback: the rejection is
\* absorbed and the callback is fulfilled without audio
LkUpdateRejectsAbsorbed(l, id, error) ==
  LET c == lk[l]
  IN /\ c.pc \in {"enrich", "returned"}
     /\ id \in DOMAIN c.tasks
     /\ c.tasks[id].pc = "update"
     /\ lk' = [lk EXCEPT ![l].tasks[id] = Task("settled", Null, {error})]
     /\ UNCHANGED <<store, llmCalls, apiCalls, imp, last, nImports, nLookups>>

\* await this.pronunciationRepository.update(...) rejects with error: the
\* callback is rejected, and with it Promise.all, findWordInDatabase and,
\* through the catch block, lookupWord, unless the call has ended already.
\* The other callbacks go on.
LkUpdateRejects(l, id, error) ==
  LET c == lk[l]
  IN /\ c.pc \in {"enrich", "returned"}
     /\ id \in DOMAIN c.tasks
     /\ c.tasks[id].pc = "update"
     /\ lk' = [lk EXCEPT ![l] =
                 [c EXCEPT !.tasks[id] = Task("rejected", Null, {error}),
                           !.pc = "returned",
                           !.result = IF c.pc = "enrich"
                                      THEN LookupCatch(Throw(error))
                                      ELSE c.result]]
     /\ UNCHANGED <<store, llmCalls, apiCalls, imp, last, nImports, nLookups>>

\* Promise.all is fulfilled: await synonymRepository.find(...), then the
\* response is assembled and returned.
LkAssemble(l) ==
  LET c == lk[l]
  IN /\ c.pc = "enrich"
     /\ \A id \in DOMAIN c.tasks : c.tasks[id].pc = "settled"
     /\ \E wordEntity \in {e \in words : e.id = c.entryId} :
          \E pOrder \in Perms({p \in pronunciations : p.wordId = wordEntity.id}),
             dOrder \in Perms({d \in definitions : d.wordId = wordEntity.id}),
             fOrder \in Perms({f \in wordForms : f.wordId = wordEntity.id}) :
            lk' = [lk EXCEPT ![l] =
                     [c EXCEPT !.pc = "returned",
                               !.result =
                                 Return(AssembledResponse(
                                   wordEntity, [id \in DOMAIN c.tasks |-> c.tasks[id].url],
                                   pOrder, dOrder, fOrder))]]
     /\ UNCHANGED <<store, llmCalls, apiCalls, imp, last, nImports, nLookups>>

\* await this.generateWordWithLLM(normalizedWord) settles
LkGenerate(l) ==
  LET c == lk[l]
  IN /\ c.pc = "generate"
     /\ \E response \in PostAnswers(c.silent) :
          lk' = [lk EXCEPT ![l] =
                   [c EXCEPT !.pc = "returned",
                             !.result = LookupCatch(GenerateWordWithLLM(response))]]
     /\ llmCalls' = llmCalls + 1
     /\ UNCHANGED <<store, apiCalls, imp, last, nImports, nLookups>>

----------------------------------------------------------------------------
(* The specifications *)

Init ==
  /\ words = {}
  /\ pronunciations = {}
  /\ definitions = {}
  /\ examples = {}
  /\ wordForms = {}
  /\ synonyms = {}
  /\ llmCalls = 0
  /\ apiCalls = <<>>
  /\ imp = [p \in Importers |-> Idle]
  /\ lk = [l \in Lookers |-> Idle]
  /\ last = [op |-> "none"]
  /\ nImports = 0
  /\ nLookups = 0

Import == \E data \in Payloads : ImportWordData(data)

Lookup == \E word \in LookupWords : nLookups < MaxLookups /\ LookupWord(word, Completions)

Audio == \E word \in LookupWords, accent \in {"US", "UK"} : GetWordAudio(word, accent)

Next == Import \/ Lookup

\* Imports and lookups handled one after the other
Spec == Init /\ [][Next]_vars

AudioFail ==
  \E word \in LookupWords, accent \in {"US", "UK"}, error \in StorageErrors :
    GetWordAudioFails(word, accent, error)

NextAudio == Import \/ Audio \/ AudioFail

\* Imports and audio requests handled one after the other, the store lookup
\* of an audio request failing or not
SpecAudio == Init /\ [][NextAudio]_vars

LookupFail ==
  \E word \in LookupWords, error \in StorageErrors :
    nLookups < MaxLookups /\ LookupWordFailing(word, error)

NextConc ==
  \E p \in Importers :
    \/ \E data \in ConcurrentPayloads : ImpCall(p, data)
    \/ ImpFindWord(p)
    \/ ImpSaveWord(p)
    \/ ImpFindPron(p)
    \/ ImpSavePron(p)
    \/ ImpSaveDef(p)
    \/ ImpSaveExample(p)
    \/ ImpFindForm(p)
    \/ ImpSaveForm(p)
    \/ ImpFindSyn(p)
    \/ ImpSaveSyn(p)
    \/ \E error \in StorageErrors : ImpReject(p, error)

\* Two calls of importWordData running concurrently, their repository
\* calls interleaved and failing or not
SpecConc == Init /\ [][NextConc]_vars

\* The import that fills the store
ImportFirst == nImports < 1 /\ Import

NextFail == ImportFirst \/ Lookup \/ LookupFail

\* One import, then lookups handled one after the other, the repository
\* calls of the lookups failing or not
SpecFail == Init /\ [][NextFail]_vars

\* One lookup of an unseen word, over every answer of the completion endpoint
Generate == nLookups < 1 /\ \E word \in {wHi, <<" ", "I">>} : LookupWord(word, GenCompletions)

SpecGen == Init /\ [][Generate]_vars

----------------------------------------------------------------------------
(* Properties *)

NormalizedKey(word) == Trim(ToLowerCase(word))

\* No row of the store is a row for the word
NoEntryFor(word) ==
  \A e \in words :
    /\ e.word # word
    /\ e.word # NormalizedKey(word)
    /\ e.wordNormalized # NormalizedKey(word)

BraceFree(text) == \A i \in 1..Len(text) : text[i] \notin {"{", "}"}

\* The objects of the model, each with its JSON text
JsonTexts == {[json |-> Stringify(o), object |-> o] : o \in JsonObjects}

\* The stretches of text that start with "{", end with "}" and lie between
\* two stretches of commentary without braces
Embedded(text) ==
  {SubSeq(text, i, j) : <<i, j>> \in
     {ij \in (1..Len(text)) \X (1..Len(text)) :
        /\ ij[1] < ij[2]
        /\ text[ij[1]] = "{"
        /\ text[ij[2]] = "}"
        /\ BraceFree(SubSeq(text, 1, ij[1] - 1))
        /\ BraceFree(SubSeq(text, ij[2] + 1, Len(text)))}}

HasText(response) == response.status = "ok" /\ response.choices # <<>>

\* C1: a lookup of a word that has no Entry, answered by a completion that
\* holds a valid JSON object, misses the store, returns exactly the parsed
\* object and leaves every table of the store as it was.
C1_MissReturnsParsedObject ==
  [][(nLookups' = nLookups + 1 /\ NoEntryFor(last'.word))
       => /\ ~last'.hit
          /\ HasText(last'.completion)
               => \A json \in Embedded(last'.completion.choices[1].text) :
                    \A o \in JsonTexts :
                      json = o.json => (last'.result = Return(o.object) /\ UNCHANGED store)]_vars

C1_Witness ==
  /\ last.op = "lookup"
  /\ last.word = <<" ", "I">>
  /\ words # {}
  /\ ~last.hit
  /\ last.result = Return({<<"a", {}>>})

\* C2: every lookup asks the completion endpoint exactly once when no row of
\* the store matches the normalized word, and never when a row matches.
C2_GenerativeCallPerMiss ==
  [][nLookups' = nLookups + 1
       => llmCalls' = llmCalls +
            (IF \E e \in words : \/ e.word = NormalizedKey(last'.word)
                                 \/ e.wordNormalized = NormalizedKey(last'.word)
             THEN 0 ELSE 1)]_vars

C2_Witness ==
  /\ nLookups = 2
  /\ llmCalls = 2
  /\ words # {}
  /\ last.op = "lookup"
  /\ last.word = <<" ", "I">>
  /\ ~last.hit

\* C3: an import that repeats the payload of the import just before it adds
\* no pronunciation, word-form or synonym row, and leaves exactly one
\* pronunciation row for the word and each accent of the payload.
C3_ReimportAddsNoGuardedRow ==
  [][(nImports' = nImports + 1 /\ last.op = "import" /\ last.payload = last'.payload)
       => /\ last'.entryId = last.entryId
          /\ pronunciations' = pronunciations
          /\ wordForms' = wordForms
          /\ synonyms' = synonyms
          /\ \A i \in 1..Len(last'.payload.pronunciations) :
               Cardinality({p \in pronunciations' :
                              /\ \E e \in words' : e.id = p.wordId /\ e.word = last'.payload.word
                              /\ p.accent = last'.payload.pronunciations[i].accent}) = 1]_vars

C3_Witness ==
  /\ last.op = "import"
  /\ nImports = 2
  /\ Cardinality(words) = 1
  /\ Len(last.payload.definitions) = 1
  /\ Cardinality(definitions) = 2
  /\ Cardinality(pronunciations) = 2
  /\ Cardinality(synonyms) = 1
  /\ Cardinality(wordForms) = 1

\* C4: every import with k definitions keeps the Definition and Example rows
\* there were and adds exactly k Definition rows for the Entry, the i-th in
\* payload order numbered i and holding the i-th definition, and for each of
\* them exactly its examples.
C4_DefinitionsAlwaysAppended ==
  [][nImports' = nImports + 1
       => LET defs == last'.payload.definitions
              new == definitions' \ definitions
          IN /\ definitions \subseteq definitions'
             /\ examples \subseteq examples'
             /\ Cardinality(definitions') = Cardinality(definitions) + Len(defs)
             /\ \A i \in 1..Len(defs) :
                  \E d \in new :
                    /\ d.id = Cardinality(definitions) + i
                    /\ d.wordId = last'.entryId
                    /\ d.definitionOrder = i
                    /\ d.partOfSpeech = defs[i].pos
                    /\ d.definitionEn = defs[i].definition_en
                    /\ d.definitionVi = defs[i].definition_vi
                    /\ {[en |-> x.exampleEn, vi |-> x.exampleVi] :
                          x \in {y \in examples' : y.definitionId = d.id}}
                         = {defs[i].examples[n] : n \in 1..Len(defs[i].examples)}
                    /\ Cardinality({y \in examples' : y.definitionId = d.id})
                         = Len(defs[i].examples)]_vars

C4_Witness ==
  /\ last.op = "import"
  /\ nImports = 2
  /\ Cardinality(words) = 1
  /\ Len(last.payload.definitions) = 2
  /\ Cardinality(definitions) = 4
  /\ Cardinality(examples) = 2

\* C5: a lookup by the exact stored word of an Entry, or by its normalized
\* key, hits the store and returns that Entry.
C5_LookupByWordOrKeyReturnsEntry ==
  last.op = "lookup"
    => \A e \in words :
         (last.word = e.word \/ last.word = e.wordNormalized)
           => (last.hit /\ last.entryId = e.id)

\* C6: the definitions of a hit response are all the Definition rows of the
\* Entry, in non-decreasing order of their definitionOrder.
C6_ResponseDefinitionsSorted ==
  (last.op = "lookup" /\ last.hit)
    => /\ Len(last.orders) = Cardinality({d \in definitions : d.wordId = last.entryId})
       /\ Len(last.result.value.definitions) = Len(last.orders)
       /\ \A i, j \in 1..Len(last.orders) : i < j => last.orders[i] <= last.orders[j]

C6_Witness ==
  /\ last.op = "lookup"
  /\ last.hit
  /\ last.orders = <<1, 1, 2, 2>>

\* C7: when getAudioUrl is called, a US request returns the US bucket if it
\* holds a URL, otherwise the UK bucket, otherwise null, and a UK request
\* the UK bucket, otherwise the US bucket, otherwise null.
C7_AudioAccentFallback ==
  (last.op = "audio" /\ last.called)
    => LET us == last.audioUrls.us
           uk == last.audioUrls.uk
       IN last.result.value.audio_url =
            IF last.accent = "US"
            THEN (IF us # Null THEN us ELSE IF uk # Null THEN uk ELSE Null)
            ELSE (IF uk # Null THEN uk ELSE IF us # Null THEN us ELSE Null)

C7_Witness ==
  /\ last.op = "audio"
  /\ last.called
  /\ last.accent = "US"
  /\ last.audioUrls = [us |-> Null, uk |-> UrlUk]
  /\ last.result.value.audio_url = UrlUk

\* C8: when the completion text has no "{" with a "}" after it, the lookup
\* throws the HttpException 'Failed to parse dictionary data' itself.
C8_NoBracesIsUnparsable ==
  (last.op = "lookup" /\ ~last.hit /\ HasText(last.completion))
    => LET text == last.completion.choices[1].text
       IN (~\E i, j \in 1..Len(text) : i < j /\ text[i] = "{" /\ text[j] = "}")
            => last.result = Throw(HttpException(<<"Failed to parse dictionary data">>))

C8_Witness ==
  /\ last.op = "lookup"
  /\ ~last.hit
  /\ last.completion = Completion(<<"}", "p", "{">>)
  /\ last.result = Throw(HttpException(<<"Failed to parse dictionary data">>))

\* C9: the lookup's outcome is that of parsing the text from the first "{"
\* to the last "}" of the completion, and a completion that is one JSON
\* object between commentary without braces yields exactly that object.
C9_ExtractionFirstToLastBrace ==
  (last.op = "lookup" /\ ~last.hit /\ HasText(last.completion))
    => LET text == last.completion.choices[1].text
           opens == {i \in 1..Len(text) : text[i] = "{"}
           closes == {j \in 1..Len(text) : text[j] = "}"}
       IN /\ (opens # {} /\ closes # {} /\ Min(opens) < Max(closes))
               => last.result =
                    LookupCatch(GenerateCatch(
                      JSONParse(SubSeq(text, Min(opens), Max(closes)))))
          /\ \A json \in Embedded(text) :
               \A o \in JsonTexts : json = o.json => last.result = Return(o.object)

C9_Witness ==
  /\ last.op = "lookup"
  /\ ~last.hit
  /\ last.completion = Completion(<<"p", " ", "{", "a", "{", "}", "}", "p">>)
  /\ last.result = Return({<<"a", {}>>})

\* C10: after a hit, every Pronunciation row that lacked audio and for which
\* the resolver returned a URL holds that URL in the store, and the response
\* carries that URL for that pronunciation.
C10_BackfillWrittenAndReturned ==
  (last.op = "lookup" /\ last.hit)
    => \A id \in DOMAIN last.resolved :
         Truthy(last.resolved[id])
           => \E p \in pronunciations :
                /\ p.id = id
                /\ p.wordId = last.entryId
                /\ p.audioUrl = last.resolved[id]
                /\ \E i \in 1..Len(last.result.value.pronunciations) :
                     last.result.value.pronunciations[i] =
                       [accent |-> p.accent, ipa |-> p.ipa,
                        audio_url |-> last.resolved[id]]

C10_Witness ==
  /\ last.op = "lookup"
  /\ last.hit
  /\ last.word = wHi
  /\ \E us, uk \in pronunciations :
       /\ us.wordId = last.entryId /\ uk.wordId = last.entryId
       /\ us.accent = "US" /\ uk.accent = "UK"
       /\ last.resolved[us.id] = UrlUk /\ last.resolved[uk.id] = UrlUk
       /\ us.audioUrl = UrlUk /\ uk.audioUrl = UrlUk
       /\ \A i \in 1..2 : last.result.value.pronunciations[i].audio_url = UrlUk

\* The calls of getAudioUrl made so far for the Pronunciation row id
Calls(calls, id) == IF id \in DOMAIN calls THEN calls[id] ELSE 0

\* C11 as stated: across any sequence of lookups the external phonetic API
\* is called at most once for each Pronunciation row of a stored word.
C11_ApiCalledAtMostOnce ==
  \A id \in DOMAIN apiCalls : apiCalls[id] <= 1

\* C11: once a Pronunciation row holds an audio URL it keeps it and no later
\* lookup calls the external API for it, and a lookup that returns an entry
\* has stored in each row the URL that its call for the row returned: the
\* call is repeated only for rows whose calls have all returned nothing.
C11_NoCallOnceAudioStored ==
  [][/\ \A p \in pronunciations :
          Truthy(p.audioUrl)
            => (p \in pronunciations' /\ Calls(apiCalls', p.id) = Calls(apiCalls, p.id))
     /\ (nLookups' = nLookups + 1 /\ last'.hit /\ last'.result.kind = "return")
          => \A id \in DOMAIN last'.resolved :
               Truthy(last'.resolved[id])
                 => /\ Calls(apiCalls', id) = Calls(apiCalls, id) + 1
                    /\ \E p \in pronunciations' :
                         p.id = id /\ p.audioUrl = last'.resolved[id]]_vars

C11_Witness ==
  /\ nLookups = 2
  /\ last.op = "lookup"
  /\ last.hit
  /\ \E p \in pronunciations :
       /\ p.wordId = last.entryId
       /\ p.audioUrl = UrlUk
       /\ last.api[p.id] = "none"
       /\ Calls(apiCalls, p.id) = 1

\* C12: in a lookup that finds a row, a call of the external phonetic API
\* that fails or answers nothing resolves to nothing, leaves the
\* Pronunciation row as it was, without audio, and the lookup returns the
\* stored entry with that pronunciation lacking audio.
C12_ApiFailureLeavesLookupWhole ==
  [][(nLookups' = nLookups + 1 /\ last'.hit)
       => \A id \in DOMAIN last'.api :
            last'.api[id] \in {"error", "empty"}
              => /\ last'.resolved[id] = Null
                 /\ last'.result.kind = "return"
                 /\ \E e \in words : e.id = last'.entryId /\ e.word = last'.result.value.word
                 /\ \E p \in pronunciations :
                      /\ p.id = id
                      /\ ~Truthy(p.audioUrl)
                      /\ p \in pronunciations'
                      /\ \E i \in 1..Len(last'.result.value.pronunciations) :
                           last'.result.value.pronunciations[i] =
                             [accent |-> p.accent, ipa |-> p.ipa, audio_url |-> p.audioUrl]]_vars

C12_Witness ==
  /\ last.op = "lookup"
  /\ last.hit
  /\ last.result.kind = "return"
  /\ \E us, uk \in pronunciations :
       /\ us.wordId = last.entryId /\ uk.wordId = last.entryId
       /\ us.accent = "US" /\ uk.accent = "UK"
       /\ last.api[us.id] = "error" /\ last.api[uk.id] = "answer"
       /\ us.audioUrl = Null /\ uk.audioUrl = UrlUs
       /\ last.result.value.pronunciations \in
            {<<[accent |-> "US", ipa |-> us.ipa, audio_url |-> Null],
               [accent |-> "UK", ipa |-> uk.ipa, audio_url |-> UrlUs]>>}

\* The lookup recorded in l had a repository call reject
StorageFailed(l) == "failure" \in DOMAIN l

LookupError(error) ==
  Throw(HttpException(<<"Failed to lookup word: ">> \o error.message))

\* C13: a lookup whose store lookup rejects throws the internal error made
\* from the storage error, does not call the completion endpoint and writes
\* nothing, whereas a lookup that finds no row calls the completion
\* endpoint once and never ends with an error made from a storage error.
C13_StorageFailureIsNotAMiss ==
  [][nLookups' = nLookups + 1
       => /\ (StorageFailed(last') /\ last'.failure.at = "findOne")
               => /\ last'.result = LookupError(last'.failure.error)
                  /\ llmCalls' = llmCalls
                  /\ UNCHANGED store
          /\ (~StorageFailed(last') /\ ~last'.hit)
               => /\ llmCalls' = llmCalls + 1
                  /\ last'.completion # NoCompletion
                  /\ \A error \in StorageErrors : last'.result # LookupError(error)]_vars

C13_Witness ==
  /\ last.op = "lookup"
  /\ StorageFailed(last)
  /\ last.failure.at = "findOne"
  /\ nLookups = 2
  /\ llmCalls = 1
  /\ NoEntryFor(last.word)
  /\ last.result = Throw(HttpException(<<"Failed to lookup word: ",
                                         "Connection terminated unexpectedly">>))

\* C14: a lookup in which a repository call rejects, in the store lookup or
\* in the hit branch, throws the internal error whose message carries the
\* message of the rejection, and a lookup that finds no row ends exactly as
\* generateWordWithLLM ends, whose exceptions are all HttpExceptions: with
\* its value or with its exception unchanged.
C14_ClassifiedUnchangedOthersWrapped ==
  last.op = "lookup"
    => /\ StorageFailed(last)
            => (~last.failure.error.http /\ last.result = LookupError(last.failure.error))
       /\ (~StorageFailed(last) /\ ~last.hit)
            => LET generated == GenerateCatch(GenerateTry(last.completion))
               IN /\ generated.kind = "throw" => generated.error.http
                  /\ last.result = generated
       /\ (~StorageFailed(last) /\ last.hit) => last.result.kind = "return"

C14_Witness ==
  /\ last.op = "lookup"
  /\ StorageFailed(last)
  /\ last.failure.at = "update"
  /\ last.result = Throw(HttpException(<<"Failed to lookup word: ",
                                         "canceling statement due to statement timeout">>))
  /\ \E us, uk \in pronunciations :
       /\ us.wordId = last.entryId /\ uk.wordId = last.entryId
       /\ us.accent = "US" /\ uk.accent = "UK"
       /\ last.failure.row = us.id
       /\ last.resolved[us.id] = UrlUs /\ us.audioUrl = Null
       /\ last.resolved[uk.id] = UrlUk /\ uk.audioUrl = UrlUk

\* C15: an import of a word that has an Entry row goes on with that row and
\* leaves the table of Entry rows as it was, whatever the payload supplies.
C15_ExistingEntryReusedUnchanged ==
  [][(nImports' = nImports + 1 /\ \E e \in words : e.word = last'.payload.word)
       => /\ words' = words
          /\ \E e \in words : e.id = last'.entryId /\ e.word = last'.payload.word]_vars

C15_Witness ==
  /\ last.op = "import"
  /\ nImports = 2
  /\ last.payload.word_normalized = whi
  /\ last.payload.frequency_rank = 7
  /\ Len(last.payload.definitions) = 1
  /\ words = {Word(1, whi, whi, <<"en">>, NullRank, <<>>)}
  /\ last.entryId = 1

\* The call c has ended with an exception
Failed(c) == c.pc = "done" /\ c.result.kind = "throw"

\* The call c is past the save of its Entry row
PastSaveWord(c) == c.pc \notin {"idle", "findWord", "saveWord"}

\* The call c has saved an Entry row
CreatedEntry(c) == \E e \in words : <<"words", e.id>> \in c.saved

\* The text msg holds the word, character by character
Mentions(msg, word) ==
  \E k \in 0..(Len(msg) - Len(word)) : SubSeq(msg, k + 1, k + Len(word)) = word

\* C16: a call of importWordData that has failed has thrown the import
\* error made from the exception, and every row it saved before the failure
\* is in the store.
C16_FailedImportKeepsSavedRows ==
  \A p \in Importers :
    Failed(imp[p])
      => /\ imp[p].result.error.http
         /\ Len(imp[p].result.error.message) > 1
         /\ Head(imp[p].result.error.message) = "Failed to import word: "
         /\ \A row \in imp[p].saved : \E r \in TableRows(row[1]) : r.id = row[2]

C16_Witness ==
  \E p \in Importers :
    /\ Failed(imp[p])
    /\ imp[p].result =
         Throw(HttpException(<<"Failed to import word: ",
                               "Connection terminated unexpectedly">>))
    /\ {row[1] : row \in imp[p].saved} =
         {"words", "pronunciations", "definitions", "examples", "wordForms"}
    /\ \A row \in imp[p].saved : \E r \in TableRows(row[1]) : r.id = row[2]
    /\ \A q \in Importers \ {p} : imp[q].pc = "idle"

\* C17: whenever importWordData fails, the message of the error it throws
\* holds the word that was being imported.
C17_ImportErrorNamesWord ==
  \A p \in Importers :
    Failed(imp[p]) => Mentions(imp[p].result.error.message, imp[p].data.word)

\* C18 as stated: when two concurrent calls for the same new word have both
\* found no row and are both past the save of their Entry row, no
\* repository call having failed for another reason, the store holds two
\* Entry rows with the same word.
C18_RacingImportsBothCreate ==
  (/\ \A p \in Importers : PastSaveWord(imp[p]) /\ imp[p].missed
   /\ \A p \in Importers, error \in StorageErrors : imp[p].result # ImportCatch(error))
    => \E e1, e2 \in words : e1 # e2 /\ e1.word = e2.word

\* C18: two concurrent calls for the same new word can both find no row,
\* but no two Entry rows ever hold the same word: a call that found no row
\* and saved none has failed, and a save rejected by the unique constraint
\* on word ends the call, which has saved nothing, with the import error
\* while the row of the other call is in the store.
C18_RacingImportsOneCreates ==
  /\ \A e1, e2 \in words : e1.word = e2.word => e1 = e2
  /\ \A p \in Importers :
       /\ (PastSaveWord(imp[p]) /\ imp[p].missed /\ ~CreatedEntry(imp[p]))
            => Failed(imp[p])
       /\ (imp[p].pc = "done" /\ imp[p].result = ImportCatch(UniqueViolation))
            => /\ imp[p].missed
               /\ imp[p].saved = {}
               /\ \E e \in words : e.word = imp[p].data.word

C18_Witness ==
  /\ \A p \in Importers : imp[p].pc = "done" /\ imp[p].missed
  /\ Cardinality(words) = 1
  /\ imp["i1"].result = Return([success |-> TRUE, word |-> whi])
  /\ imp["i2"].result =
       Throw(HttpException(<<"Failed to import word: ",
                             "duplicate key value violates unique constraint">>))

\* C19: in every reachable state, also of concurrent calls of
\* importWordData for the same word, there is at most one Pronunciation row
\* for each Entry and accent.
C19_OnePronunciationPerEntryAccent ==
  \A r1, r2 \in pronunciations :
    (r1.wordId = r2.wordId /\ r1.accent = r2.accent) => r1 = r2

\* C20: after any sequence of imports, no two Entry rows hold the same
\* normalized key.
C20_NormalizedKeyUnique ==
  \A e1, e2 \in words : e1.wordNormalized = e2.wordNormalized => e1 = e2


----------------------------------------------------------------------------
(* C22 *)

\* A step of a lookupWord call, complete or failed
LookupStep == nLookups' # nLookups

----------------------------------------------------------------------------
(* C23 *)

\* C23: importWordData never updates a Pronunciation row: every row stays
\* as it was, and for an accent of the payload for which the entry had a row
\* the entry has the same rows afterwards, whatever ipa and audio URL the
\* payload supplies.
C23_ImportKeepsExistingPronunciations ==
  [][nImports' # nImports =>
       /\ pronunciations \subseteq pronunciations'
       /\ \A i \in 1..Len(last'.payload.pronunciations) :
            LET pron == last'.payload.pronunciations[i]
                Rows(rows) == {r \in rows : r.wordId = last'.entryId
                                             /\ r.accent = pron.accent}
            IN Rows(pronunciations) # {} => Rows(pronunciations') = Rows(pronunciations)]_vars

\* An import has supplied, for an accent whose row has no audio URL, another
\* ipa and an audio URL, and the row is the only one of that accent
C23_Witness ==
  /\ last.op = "import"
  /\ Len(last.payload.pronunciations) = 1
  /\ LET pron == last.payload.pronunciations[1]
         rows == {r \in pronunciations : r.wordId = last.entryId /\ r.accent = pron.accent}
     IN /\ Truthy(pron.audio_url)
        /\ Cardinality(rows) = 1
        /\ \A r \in rows : r.ipa # pron.ipa /\ ~Truthy(r.audioUrl)

----------------------------------------------------------------------------
(* C24 *)

UrlUsPath == <<"https://media/", "/us/", "hi", ".mp3">>
UrlUkDash == <<"https://media/", "hi", "-uk.mp3">>
UrlOgg == <<"https://media/", "hi", ".ogg">>

ClassifyAudios == Audios \cup {UrlUsPath, UrlUkDash, UrlOgg}

\* fetchAudioFromFreeDictionary on an answer of one entry, the answer being
\* the one classified before with one more phonetic at its end
Classify ==
  /\ last.op \in {"none", "classify"}
  /\ LET phonetics == IF last.op = "classify" THEN last.phonetics ELSE <<>>
     IN /\ Len(phonetics) <= MaxPhonetics
        /\ \E a \in ClassifyAudios :
             last' = [op |-> "classify",
                      phonetics |-> Append(phonetics, [audio |-> a]),
                      result |-> FetchAudioFromFreeDictionary(
                                   [status |-> "ok",
                                    data |-> <<[phonetics |->
                                                  Append(phonetics, [audio |-> a])]>>])]
  /\ UNCHANGED <<store, llmCalls, apiCalls, imp, lk, nImports, nLookups>>

\* Answers of the phonetic-data endpoint, classified one phonetic after the other
SpecClassify == Init /\ [][Classify]_vars

\* A URL with none of the four accent patterns
PlainUrl(url) ==
  /\ Truthy(url)
  /\ \A pattern \in {"-us.mp3", "/us/", "-uk.mp3", "/uk/"} : ~Includes(url, pattern)

\* C24: a URL that matches neither the US nor the UK patterns goes to the US
\* bucket exactly when both buckets are empty when it is met, and is ignored
\* otherwise.
C24_DefaultOnlyIntoEmptyBuckets ==
  [][last'.op = "classify" =>
       LET url == last'.phonetics[Len(last'.phonetics)].audio
           before == IF last.op = "classify" THEN last.result
                     ELSE [us |-> Null, uk |-> Null]
       IN PlainUrl(url) =>
            last'.result = IF ~Truthy(before.us) /\ ~Truthy(before.uk)
                           THEN [before EXCEPT !.us = url]
                           ELSE before]_vars

\* A URL without pattern has gone to the empty buckets, and after a UK URL
\* another URL without pattern has been ignored
C24_Witness ==
  /\ last.op = "classify"
  /\ Len(last.phonetics) = 3
  /\ PlainUrl(last.phonetics[1].audio)
  /\ last.phonetics[2].audio = UrlUk
  /\ PlainUrl(last.phonetics[3].audio)
  /\ last.phonetics[3].audio # last.phonetics[1].audio
  /\ last.result = [us |-> last.phonetics[1].audio, uk |-> UrlUk]

----------------------------------------------------------------------------
(* C28 *)

\* The number of "{" less the number of "}" among the first k tokens
RECURSIVE Depth(_, _)
Depth(text, k) ==
  IF k = 0 THEN 0
  ELSE Depth(text, k - 1)
       + (IF text[k] = "{" THEN 1 ELSE IF text[k] = "}" THEN -1 ELSE 0)

\* A text from a "{" to a "}" that cannot be one JSON object: it holds
\* commentary, or its first "{" is closed before its end, or its braces do
\* not match
Malformed(span) ==
  \/ \E k \in 1..Len(span) : span[k] = "p"
  \/ \E k \in 1..(Len(span) - 1) : Depth(span, k) <= 0
  \/ Depth(span, Len(span)) # 0

GenerationError(error) ==
  Throw(HttpException(<<"Failed to generate word data: ">> \o error.message))

\* C28: when the text from the first "{" to the last "}" of the completion is
\* not valid JSON, the lookup throws the internal error that carries the
\* parser's message, returns no object and writes nothing: the store, empty
\* before the lookup, is empty after it.
C28_MalformedSpanIsInternalError ==
  (last.op = "lookup" /\ ~last.hit /\ HasText(last.completion))
    => LET text == last.completion.choices[1].text
           opens == {i \in 1..Len(text) : text[i] = "{"}
           closes == {j \in 1..Len(text) : text[j] = "}"}
       IN (/\ opens # {} /\ closes # {} /\ Min(opens) < Max(closes)
           /\ Malformed(SubSeq(text, Min(opens), Max(closes))))
            => /\ last.result = GenerationError(SyntaxError)
               /\ store = <<{}, {}, {}, {}, {}, {}>>

\* A completion of two objects with commentary between them has been
\* answered with the internal error
C28_Witness ==
  /\ last.op = "lookup"
  /\ ~last.hit
  /\ last.completion = Completion(<<"{", "a", "{", "}", "}", "p", " ", "{", "}">>)
  /\ last.result = GenerationError(SyntaxError)
  /\ words = {}

----------------------------------------------------------------------------
(* C29 *)

\* C29: getWordAudio always returns and never writes to the store.  When
\* the entry it found has a Pronunciation of the accent with an audio URL it
\* returns that URL without calling the resolver; otherwise it returns what
\* the resolver returns; when its store lookup fails it returns a null URL.
C29_AudioNeverThrowsNeverWrites ==
  [][last'.op = "audio" =>
       LET withAudio == {p \in pronunciations :
                           /\ p.wordId = last'.entryId
                           /\ p.accent = last'.accent
                           /\ Truthy(p.audioUrl)}
       IN /\ UNCHANGED store
          /\ last'.result.kind = "return"
          /\ IF StorageFailed(last')
               THEN ~last'.called /\ last'.result.value.audio_url = Null
             ELSE IF withAudio # {}
               THEN /\ ~last'.called
                    /\ \E p \in withAudio : last'.result.value.audio_url = p.audioUrl
             ELSE /\ last'.called
                  /\ last'.result.value.audio_url =
                       GetAudioUrl(last'.audioUrls, last'.accent)]_vars

\* An audio request for an entry whose row of the accent has no audio URL
\* has returned the URL of the resolver, and the row still has none
C29_Witness ==
  /\ last.op = "audio"
  /\ last.called
  /\ Truthy(last.result.value.audio_url)
  /\ \E p \in pronunciations :
       p.wordId = last.entryId /\ p.accent = last.accent /\ ~Truthy(p.audioUrl)

----------------------------------------------------------------------------
(* C30 *)

\* C30: whatever the imports, complete, failed partway or interleaved, every
\* Pronunciation, Definition, WordForm and Synonym row refers to an Entry
\* row of the store and every Example row to a Definition row of the store.
C30_ReferencesResolve ==
  LET entryIds == {e.id : e \in words}
  IN /\ \A r \in pronunciations : r.wordId \in entryIds
     /\ \A r \in definitions : r.wordId \in entryIds
     /\ \A r \in wordForms : r.wordId \in entryIds
     /\ \A r \in synonyms : r.wordId \in entryIds
     /\ \A r \in examples : r.definitionId \in {d.id : d \in definitions}

\* Two interleaved imports have ended, one of them with an error after it
\* had saved rows, and every table holds rows
C30_Witness ==
  /\ \A p \in Importers : imp[p].pc = "done"
  /\ \E p \in Importers : imp[p].result.kind = "throw" /\ imp[p].saved # {}
  /\ pronunciations # {} /\ definitions # {} /\ examples # {}
  /\ wordForms # {} /\ synonyms # {}

----------------------------------------------------------------------------
(* One lookupWord call, step by step *)

OneLooker == {"l1"}

RowIds == {p.id : p \in pronunciations}

NextEnrich ==
  \/ ImportFirst
  \/ \E l \in OneLooker :
       \/ \E word \in LookupWords, silent \in BOOLEAN : LkCall(l, word, silent)
       \/ LkFind(l)
       \/ \E id \in RowIds : LkGetAudioUrl(l, id)
       \/ \E id \in RowIds : LkUpdate(l, id)
       \/ \E id \in RowIds, error \in StorageErrors : LkUpdateRejects(l, id, error)
       \/ LkAssemble(l)
       \/ LkGenerate(l)

\* One import and one lookup, the lookup taken one awaited call at a time
SpecEnrich == Init /\ [][NextEnrich]_vars

\* The steps by which the awaited calls of a lookup settle
LkSettles(l) ==
  \/ LkFind(l)
  \/ \E id \in RowIds : LkGetAudioUrl(l, id)
  \/ \E id \in RowIds : LkUpdate(l, id)
  \/ LkAssemble(l)
  \/ LkGenerate(l)

\* SpecEnrich where every awaited call settles in the end: the repository
\* calls by assumption, the external calls by their timeouts
SpecEnrichFair == SpecEnrich /\ \A l \in OneLooker : WF_vars(LkSettles(l))

Returned(c) == c.pc = "returned"

InFlight(c) == {id \in DOMAIN c.tasks : c.tasks[id].pc \in {"call", "update"}}

----------------------------------------------------------------------------
(* C21 *)

\* C21 as stated: when a lookup that found an entry has returned, with a
\* response or with an error, none of its enrichment tasks is still in
\* flight: no call of the resolver is pending and no write is to come.
C21_ReturnsAfterAllTasksSettled ==
  \A l \in OneLooker :
    (Returned(lk[l]) /\ lk[l].entryId # 0) => InFlight(lk[l]) = {}

----------------------------------------------------------------------------
(* C25 *)

UpstreamTimeout ==
  Throw(HttpException(<<"Failed to generate word data: ">>
                      \o <<"timeout of 30000ms exceeded">>))

----------------------------------------------------------------------------
(* C27 *)

\* The errors with which updates of the call c were rejected
UpdateErrors(c) == UNION {c.tasks[id].thrown : id \in DOMAIN c.tasks}

\* C27: when the update that stores a backfilled audio URL is rejected, the
\* lookup ends with the internal error made from the rejection: it returns
\* no entry and the completion endpoint is not called; the URLs that other
\* tasks of the lookup have written are in the store.
C27_FailedBackfillFailsLookup ==
  \A l \in OneLooker :
    (lk[l].pc # "idle" /\ UpdateErrors(lk[l]) # {})
      => /\ Returned(lk[l])
         /\ \E error \in UpdateErrors(lk[l]) : lk[l].result = LookupError(error)
         /\ llmCalls = 0
         /\ \A id \in DOMAIN lk[l].tasks :
              (lk[l].tasks[id].pc = "settled" /\ Truthy(lk[l].tasks[id].url))
                => \E p \in pronunciations :
                     p.id = id /\ p.audioUrl = lk[l].tasks[id].url

\* The update of one row has been rejected and the lookup has failed, the
\* URL found for another row being in the store
C27_Witness ==
  /\ Returned(lk["l1"])
  /\ lk["l1"].result.kind = "throw"
  /\ \E id1, id2 \in DOMAIN lk["l1"].tasks :
       /\ lk["l1"].tasks[id1].pc = "rejected"
       /\ lk["l1"].tasks[id2].pc = "settled"
       /\ Calls(apiCalls, id2) = 1
       /\ \E p \in pronunciations :
            p.id = id2 /\ Truthy(p.audioUrl) /\ p.audioUrl = lk["l1"].tasks[id2].url

----------------------------------------------------------------------------
(* Two lookupWord calls, step by step *)

NextRace ==
  \/ ImportFirst
  \/ \E l \in Lookers :
       \/ \E word \in {wHi}, silent \in {FALSE} : LkCall(l, word, silent)
       \/ LkFind(l)
       \/ \E id \in RowIds : LkGetAudioUrl(l, id)
       \/ \E id \in RowIds : LkUpdate(l, id)
       \/ \E id \in RowIds, error \in StorageErrors : LkUpdateRejects(l, id, error)
       \/ LkAssemble(l)
       \/ LkGenerate(l)

\* One import and two lookups of the same word running concurrently, their
\* awaited calls interleaved
SpecRace == Init /\ [][NextRace]_vars

----------------------------------------------------------------------------
(* C26 *)

\* C26 as stated: once a Pronunciation row has an audio URL, no step of any
\* operation changes that URL.
C26_StoredAudioUrlNeverChanges ==
  [][\A p \in pronunciations :
       Truthy(p.audioUrl)
         => \E q \in pronunciations' : q.id = p.id /\ q.audioUrl = p.audioUrl]_vars
====
